---- MODULE Spec2Model ----
(***************************************************************************)
(* Model of the pastebin-lite UI: the Create/Fetch/Health panel (App.jsx)  *)
(* and the paste viewer page (PasteView).  JavaScript strings are TLA+     *)
(* strings, JavaScript values are tagged records, an HTTP response is a    *)
(* status with a body text (or a network failure), and each event handler  *)
(* is one action up to its await and one action for its continuation.      *)
(***************************************************************************)
EXTENDS Integers, Sequences, FiniteSets, TLC

VARIABLES
    content, ttl, maxViews,     \* App: create form state
    createRes, createErr,       \* App: create results
    pasteId, fetchRes, fetchErr,\* App: fetch state
    healthRes, healthErr,       \* App: health state
    loading,                    \* App: the single shared loading flag
    inflight,                   \* App: requests awaiting their response
    id, paste, vLoading, error, \* PasteView: route parameter and view state
    effectDue,                  \* PasteView: the effect of the first render has yet to run
    vInflight                   \* PasteView: identifiers of the requests awaiting a response

appVars  == <<content, ttl, maxViews, createRes, createErr, pasteId, fetchRes,
              fetchErr, healthRes, healthErr, loading, inflight>>
viewVars == <<id, paste, vLoading, error, effectDue, vInflight>>
vars     == <<appVars, viewVars>>

---------------------------------------------------------------------------
(* Bounds of the model *)

MaxNumLen     == 3   \* longest ttl / max-views input drawn in SpecDraft
MaxContentLen == 2   \* longest content input drawn in SpecDraft
MaxInflight   == 2   \* most viewer requests outstanding at once

(* Program constants *)
CreateSlice == 140   \* text?.slice(0, 140) in createPaste
FetchSlice  == 140   \* text?.slice(0, 140) in fetchPaste and PasteView
HealthSlice == 120   \* text?.slice(0, 120) in checkHealth

API_BASE == ""

---------------------------------------------------------------------------
(* JavaScript values *)

JNull      == [t |-> "null"]
JUndefined == [t |-> "undefined"]
JNaN       == [t |-> "NaN"]
JNum(n)    == [t |-> "number", n |-> n]
JStr(s)    == [t |-> "string", s |-> s]
JObj(f)    == [t |-> "object", f |-> f]

\* ToBoolean: the truthiness test behind !x, x || y and x && y
Truthy(v) ==
    CASE v.t = "null"      -> FALSE
      [] v.t = "undefined" -> FALSE
      [] v.t = "NaN"       -> FALSE
      [] v.t = "number"    -> v.n # 0
      [] v.t = "string"    -> v.s # ""
      [] OTHER             -> TRUE

\* v?.k : optional chaining on a parsed JSON value
Get(v, k) ==
    IF v.t = "object" /\ k \in DOMAIN v.f THEN v.f[k] ELSE JUndefined

\* String(v) for the values a message is built from
ToStr(v) ==
    CASE v.t = "string" -> v.s
      [] v.t = "number" -> ToString(v.n)
      [] v.t = "object" -> "[object Object]"
      [] OTHER          -> v.t

---------------------------------------------------------------------------
(* String helpers *)

WhiteSpace == {" ", "\t", "\n"}
Digits     == {"0", "1", "2", "3", "4", "5", "6", "7", "8", "9"}

Char(s, i) == SubSeq(s, i, i)
Rest(s)    == SubSeq(s, 2, Len(s))

RECURSIVE TrimStart(_)
TrimStart(s) ==
    IF s # "" /\ Char(s, 1) \in WhiteSpace THEN TrimStart(Rest(s)) ELSE s

RECURSIVE TrimEnd(_)
TrimEnd(s) ==
    IF s # "" /\ Char(s, Len(s)) \in WhiteSpace
    THEN TrimEnd(SubSeq(s, 1, Len(s) - 1)) ELSE s

\* String.prototype.trim (TrimNone: the variant that forgets to trim)
TrimNone(s) == s
trim(s) == TrimEnd(TrimStart(s))

\* String.prototype.slice(0, n)
slice(s, n) == IF Len(s) <= n THEN s ELSE SubSeq(s, 1, n)

\* encodeURIComponent on the characters the identifiers are drawn from
EncodeChar(c) ==
    CASE c = " " -> "%20"
      [] c = "/" -> "%2F"
      [] OTHER   -> c

RECURSIVE encodeURIComponent(_)
encodeURIComponent(s) ==
    IF s = "" THEN "" ELSE EncodeChar(Char(s, 1)) \o encodeURIComponent(Rest(s))

---------------------------------------------------------------------------
(* Number(v): StringToNumber on decimal literals.  A number is kept as a   *)
(* mantissa m and a count k of fraction digits (value m / 10^k), with      *)
(* trailing fraction zeros dropped, so that k = 0 exactly for integers.    *)

DigitVal(c) ==
    CASE c = "0" -> 0 [] c = "1" -> 1 [] c = "2" -> 2 [] c = "3" -> 3
      [] c = "4" -> 4 [] c = "5" -> 5 [] c = "6" -> 6 [] c = "7" -> 7
      [] c = "8" -> 8 [] c = "9" -> 9

RECURSIVE DigitRun(_)
\* the longest prefix of s made of decimal digits
DigitRun(s) ==
    IF s # "" /\ Char(s, 1) \in Digits
    THEN Char(s, 1) \o DigitRun(Rest(s)) ELSE ""

RECURSIVE DigitsValue(_)
DigitsValue(s) ==
    IF s = "" THEN 0
    ELSE 10 * DigitsValue(SubSeq(s, 1, Len(s) - 1)) + DigitVal(Char(s, Len(s)))

RECURSIVE Norm(_, _)
Norm(m, k) == IF k > 0 /\ m % 10 = 0 THEN Norm(m \div 10, k - 1) ELSE [m |-> m, k |-> k]

Rat(m, k) == [t |-> "rational", m |-> Norm(m, k).m, k |-> Norm(m, k).k]

RECURSIVE Pow10(_)
Pow10(k) == IF k = 0 THEN 1 ELSE 10 * Pow10(k - 1)

\* an unsigned decimal literal: digits [. digits*] or . digits
UnsignedDecimal(u) ==
    LET ip    == DigitRun(u)
        after == SubSeq(u, Len(ip) + 1, Len(u))
        fp    == IF after # "" /\ Char(after, 1) = "." THEN DigitRun(Rest(after)) ELSE ""
        tail  == IF after # "" /\ Char(after, 1) = "."
                 THEN SubSeq(after, Len(fp) + 2, Len(after)) ELSE after
    IN  IF tail # "" \/ (ip = "" /\ fp = "") THEN JNaN
        ELSE Rat(DigitsValue(ip) * Pow10(Len(fp)) + DigitsValue(fp), Len(fp))

Negate(n) == IF n.t = "rational" THEN [n EXCEPT !.m = 0 - n.m] ELSE n

Number(v) ==
    LET s == trim(v)
    IN  IF s = "" THEN Rat(0, 0)
        ELSE IF Char(s, 1) = "-" THEN Negate(UnsignedDecimal(Rest(s)))
        ELSE IF Char(s, 1) = "+" THEN UnsignedDecimal(Rest(s))
        ELSE UnsignedDecimal(s)

isInteger(n) == n.t = "rational" /\ n.k = 0
LessThan(n, i) == n.t = "rational" /\ n.m < i * Pow10(n.k)
isNaN(n) == n.t = "NaN"

\* the variant that truncates like parseInt instead of testing Number.isInteger
ParseTruncating(v) ==
    IF v = "" THEN JNull
    ELSE LET n == Number(v)
         IN  IF n.t # "rational" \/ LessThan(n, 1) THEN JNaN
             ELSE JNum(n.m \div Pow10(n.k))

parsePositiveIntOrNull(v) ==
    IF v = "" THEN JNull
    ELSE LET n == Number(v)
         IN  IF ~isInteger(n) \/ LessThan(n, 1) THEN JNaN ELSE JNum(n.m)

---------------------------------------------------------------------------
(* HTTP: the responses the backend or the platform can give *)

T_Created  == "{\"id\":\"abc123\"}"
T_NotFound == "{\"error\":\"Not found\"}"
T_Html     == "<!DOCTYPE html><html><head><title>502 Bad Gateway</title></head><body><h1>502 Bad Gateway</h1><p>The upstream function failed to respond. Please retry the request later.</p></body></html>"
T_Empty    == ""
T_Null     == "null"
T_EmptyId  == "{\"id\":\"\"}"
T_EmptyErr == "{\"error\":\"\"}"
T_PasteA   == "{\"id\":\"a\",\"content\":\"A\"}"
T_PasteB   == "{\"id\":\"b\",\"content\":\"B\"}"

BodyTexts == {T_Created, T_NotFound, T_Html, T_Empty, T_Null, T_EmptyId, T_EmptyErr}
Statuses  == {200, 201, 404}

NetFailure     == [kind |-> "failure", message |-> "Failed to fetch"]
Resp(st, text) == [kind |-> "response", status |-> st, text |-> text]
Responses      == {NetFailure} \cup {Resp(st, text) : st \in Statuses, text \in BodyTexts}

\* Response.ok
ok(r) == 200 <= r.status /\ r.status <= 299

\* JSON.parse on the body texts above: the parsed value, or thrown
JSONparse(text) ==
    CASE text = T_Created  -> [thrown |-> FALSE, value |-> JObj("id" :> JStr("abc123"))]
      [] text = T_NotFound -> [thrown |-> FALSE, value |-> JObj("error" :> JStr("Not found"))]
      [] text = T_Null     -> [thrown |-> FALSE, value |-> JNull]
      [] text = T_EmptyId  -> [thrown |-> FALSE, value |-> JObj("id" :> JStr(""))]
      [] text = T_EmptyErr -> [thrown |-> FALSE, value |-> JObj("error" :> JStr(""))]
      [] text = T_PasteA   -> [thrown |-> FALSE,
                               value |-> JObj("id" :> JStr("a") @@ "content" :> JStr("A"))]
      [] text = T_PasteB   -> [thrown |-> FALSE,
                               value |-> JObj("id" :> JStr("b") @@ "content" :> JStr("B"))]
      [] OTHER             -> [thrown |-> TRUE]

\* the variant that hands the raw text on as the value when parsing fails
safeJsonKeepsText(resp) ==
    LET p == JSONparse(resp.text)
    IN  IF p.thrown THEN [json |-> JStr(resp.text), text |-> resp.text]
        ELSE [json |-> p.value, text |-> resp.text]
safeJsonResponse(resp) ==
    LET p == JSONparse(resp.text)
    IN  IF p.thrown THEN [json |-> JNull, text |-> resp.text]
        ELSE [json |-> p.value, text |-> resp.text]

\* the outcome of a try block: a value, or a thrown Error with its message
Return(v)  == [thrown |-> FALSE, value |-> v]
Throw(msg) == [thrown |-> TRUE, message |-> msg]

\* String(e.message || e) in the catch blocks
CatchMessage(o) == IF o.message # "" THEN o.message ELSE "Error"

\* json?.error || `HTTP ${r.status} - ${text?.slice(0, n) || fallback}`
\* (HttpErrorMessageNoJson: the variant that never looks at json.error)
HttpErrorMessageNoJson(r, d, n, fallback) ==
    "HTTP " \o ToString(r.status) \o " - "
    \o (IF slice(d.text, n) # "" THEN slice(d.text, n) ELSE fallback)
HttpErrorMessage(r, d, n, fallback) ==
    IF Truthy(Get(d.json, "error")) THEN ToStr(Get(d.json, "error"))
    ELSE "HTTP " \o ToString(r.status) \o " - "
         \o (IF slice(d.text, n) # "" THEN slice(d.text, n) ELSE fallback)

---------------------------------------------------------------------------
(* App: the Create / Fetch / Health panel *)

\* a request sent by fetch(); its response is pending until the promise settles
Pending == [kind |-> "pending"]
Request(kind, method, url, body) ==
    [kind |-> kind, method |-> method, url |-> url, body |-> body, response |-> Pending]

\* JSON.stringify of the create body: content and the optional fields present
Quote(s) == "\"" \o s \o "\""
JSONstringify(body) ==
    "{" \o Quote("content") \o ":" \o Quote(body.content)
        \o (IF "ttl_seconds" \in DOMAIN body
            THEN "," \o Quote("ttl_seconds") \o ":" \o ToStr(body.ttl_seconds) ELSE "")
        \o (IF "max_views" \in DOMAIN body
            THEN "," \o Quote("max_views") \o ":" \o ToStr(body.max_views) ELSE "")
        \o "}"

\* createPaste: const body = { content: content.trim() }; if (x != null) body.f = x
\* (CreateBodyAlways: the variant that assigns both fields unconditionally)
CreateBodyAlways(c, ttlVal, mvVal) ==
    [content |-> trim(c), ttl_seconds |-> ttlVal, max_views |-> mvVal]
CreateBody(c, ttlVal, mvVal) ==
    LET b0 == [content |-> trim(c)]
        b1 == IF ttlVal # JNull THEN b0 @@ [ttl_seconds |-> ttlVal] ELSE b0
    IN  IF mvVal # JNull THEN b1 @@ [max_views |-> mvVal] ELSE b1

\* createPaste before its await: the validation error, or "" when the draft passes
\* (the two messages are written with the sign for "greater than or equal to")
CreateValidation(c, t, m) ==
    IF trim(c) = "" THEN "Content is required."
    ELSE IF isNaN(parsePositiveIntOrNull(t)) THEN "ttl_seconds must be an integer >= 1"
    ELSE IF isNaN(parsePositiveIntOrNull(m)) THEN "max_views must be an integer >= 1"
    ELSE ""

\* the try blocks of the three handlers, from the response to return or throw
HealthOutcome(r) ==
    IF r.kind = "failure" THEN Throw(r.message)
    ELSE LET d == safeJsonResponse(r)
         IN  IF ~ok(r) THEN Throw(HttpErrorMessage(r, d, HealthSlice, "error"))
             ELSE IF ~Truthy(d.json)
                  THEN Throw("Healthz returned non-JSON (HTTP " \o ToString(r.status) \o ").")
             ELSE Return(d.json)

\* the variant of createPaste's try block without the !r.ok test
CreateOutcomeAnyStatus(r) ==
    IF r.kind = "failure" THEN Throw(r.message)
    ELSE LET d == safeJsonResponse(r)
         IN  IF ~Truthy(Get(d.json, "id"))
             THEN Throw("Unexpected response: missing paste id.")
             ELSE Return(d.json)
CreateOutcome(r) ==
    IF r.kind = "failure" THEN Throw(r.message)
    ELSE LET d == safeJsonResponse(r)
         IN  IF ~ok(r) THEN Throw(HttpErrorMessage(r, d, CreateSlice, "error"))
             ELSE IF ~Truthy(Get(d.json, "id"))
                  THEN Throw("Unexpected response: missing paste id.")
             ELSE Return(d.json)

FetchOutcome(r) ==
    IF r.kind = "failure" THEN Throw(r.message)
    ELSE LET d == safeJsonResponse(r)
         IN  IF ~ok(r) THEN Throw(HttpErrorMessage(r, d, FetchSlice, "Not found"))
             ELSE IF ~Truthy(d.json)
                  THEN Throw("Non-JSON response (HTTP " \o ToString(r.status) \o ").")
             ELSE Return(d.json)

AppInit ==
    /\ content = "" /\ ttl = "" /\ maxViews = ""
    /\ createRes = JNull /\ createErr = ""
    /\ pasteId = "" /\ fetchRes = JNull /\ fetchErr = ""
    /\ healthRes = JNull /\ healthErr = ""
    /\ loading = FALSE
    /\ inflight = {}

\* onChange handlers of the four inputs (never disabled)
SetContent(v) ==
    /\ content' = v
    /\ UNCHANGED <<ttl, maxViews, createRes, createErr, pasteId, fetchRes, fetchErr,
                   healthRes, healthErr, loading, inflight, viewVars>>

SetTtl(v) ==
    /\ ttl' = v
    /\ UNCHANGED <<content, maxViews, createRes, createErr, pasteId, fetchRes, fetchErr,
                   healthRes, healthErr, loading, inflight, viewVars>>

SetMaxViews(v) ==
    /\ maxViews' = v
    /\ UNCHANGED <<content, ttl, createRes, createErr, pasteId, fetchRes, fetchErr,
                   healthRes, healthErr, loading, inflight, viewVars>>

SetPasteId(v) ==
    /\ pasteId' = v
    /\ UNCHANGED <<content, ttl, maxViews, createRes, createErr, fetchRes, fetchErr,
                   healthRes, healthErr, loading, inflight, viewVars>>

\* the awaited fetch() settles: a response with its body text, or a network failure
Arrive(r) ==
    /\ \E q \in inflight :
          /\ q.response = Pending
          /\ inflight' = (inflight \ {q}) \cup {[q EXCEPT !.response = r]}
    /\ UNCHANGED <<content, ttl, maxViews, createRes, createErr, pasteId, fetchRes,
                   fetchErr, healthRes, healthErr, loading, viewVars>>

\* checkHealth up to its await (the button is disabled while loading)
\* (CheckHealthClobber: the variant that shares the fetch slot, which the
\* separate health state exists to avoid)
CheckHealthClobber ==
    /\ ~loading
    /\ healthErr' = "" /\ healthRes' = JNull
    /\ fetchErr' = "" /\ fetchRes' = JNull
    /\ loading' = TRUE
    /\ inflight' = inflight \cup {Request("health", "GET", API_BASE \o "/api/healthz", "")}
    /\ UNCHANGED <<content, ttl, maxViews, createRes, createErr, pasteId, viewVars>>
CheckHealth ==
    /\ ~loading
    /\ healthErr' = "" /\ healthRes' = JNull
    /\ loading' = TRUE
    /\ inflight' = inflight \cup {Request("health", "GET", API_BASE \o "/api/healthz", "")}
    /\ UNCHANGED <<content, ttl, maxViews, createRes, createErr, pasteId, fetchRes,
                   fetchErr, viewVars>>

\* checkHealth from the response on: try / catch / finally
HealthRespond(r) ==
    /\ \E q \in inflight :
          /\ q.kind = "health" /\ q.response = r
          /\ inflight' = inflight \ {q}
    /\ LET o == HealthOutcome(r)
       IN  IF o.thrown
           THEN healthErr' = CatchMessage(o) /\ UNCHANGED healthRes
           ELSE healthRes' = o.value /\ UNCHANGED healthErr
    /\ loading' = FALSE
    /\ UNCHANGED <<content, ttl, maxViews, createRes, createErr, pasteId, fetchRes,
                   fetchErr, viewVars>>

\* createPaste up to its return or its await
CreatePaste ==
    /\ ~loading
    /\ createRes' = JNull
    /\ LET ttlVal == parsePositiveIntOrNull(ttl)
           mvVal  == parsePositiveIntOrNull(maxViews)
           bad    == CreateValidation(content, ttl, maxViews)
       IN  IF bad # ""
           THEN /\ createErr' = bad
                /\ UNCHANGED <<loading, inflight>>
           ELSE /\ createErr' = ""
                /\ loading' = TRUE
                /\ inflight' = inflight \cup
                      {Request("create", "POST", API_BASE \o "/api/pastes",
                               JSONstringify(CreateBody(content, ttlVal, mvVal)))}
    /\ UNCHANGED <<content, ttl, maxViews, pasteId, fetchRes, fetchErr, healthRes,
                   healthErr, viewVars>>

\* createPaste from the response on
CreateRespond(r) ==
    /\ \E q \in inflight :
          /\ q.kind = "create" /\ q.response = r
          /\ inflight' = inflight \ {q}
    /\ LET o == CreateOutcome(r)
       IN  IF o.thrown
           THEN createErr' = CatchMessage(o) /\ UNCHANGED <<createRes, pasteId>>
           ELSE /\ createRes' = o.value
                /\ pasteId' = Get(o.value, "id").s
                /\ UNCHANGED createErr
    /\ loading' = FALSE
    /\ UNCHANGED <<content, ttl, maxViews, fetchRes, fetchErr, healthRes, healthErr,
                   viewVars>>

\* the Clear button
\* (ClearKeepsDraft: the variant that resets the result only)
ClearKeepsDraft ==
    /\ ~loading
    /\ createRes' = JNull /\ createErr' = ""
    /\ UNCHANGED <<content, ttl, maxViews, pasteId, fetchRes, fetchErr, healthRes,
                   healthErr, loading, inflight, viewVars>>
Clear ==
    /\ ~loading
    /\ content' = "" /\ ttl' = "" /\ maxViews' = ""
    /\ createRes' = JNull /\ createErr' = ""
    /\ UNCHANGED <<pasteId, fetchRes, fetchErr, healthRes, healthErr, loading,
                   inflight, viewVars>>

\* fetchPaste up to its return or its await
FetchPaste ==
    /\ ~loading
    /\ fetchRes' = JNull
    /\ IF trim(pasteId) = ""
       THEN /\ fetchErr' = "Paste ID is required."
            /\ UNCHANGED <<loading, inflight>>
       ELSE /\ fetchErr' = ""
            /\ loading' = TRUE
            /\ inflight' = inflight \cup
                  {Request("fetch", "GET",
                           API_BASE \o "/api/pastes/" \o encodeURIComponent(trim(pasteId)), "")}
    /\ UNCHANGED <<content, ttl, maxViews, createRes, createErr, pasteId, healthRes,
                   healthErr, viewVars>>

\* fetchPaste from the response on
\* (FetchRespondNoFinally: the variant with setLoading(false) in the try block
\* instead of finally)
FetchRespondNoFinally(r) ==
    /\ \E q \in inflight :
          /\ q.kind = "fetch" /\ q.response = r
          /\ inflight' = inflight \ {q}
    /\ LET o == FetchOutcome(r)
       IN  IF o.thrown
           THEN fetchErr' = CatchMessage(o) /\ UNCHANGED <<fetchRes, loading>>
           ELSE fetchRes' = o.value /\ loading' = FALSE /\ UNCHANGED fetchErr
    /\ UNCHANGED <<content, ttl, maxViews, createRes, createErr, pasteId, healthRes,
                   healthErr, viewVars>>
FetchRespond(r) ==
    /\ \E q \in inflight :
          /\ q.kind = "fetch" /\ q.response = r
          /\ inflight' = inflight \ {q}
    /\ LET o == FetchOutcome(r)
       IN  IF o.thrown
           THEN fetchErr' = CatchMessage(o) /\ UNCHANGED fetchRes
           ELSE fetchRes' = o.value /\ UNCHANGED fetchErr
    /\ loading' = FALSE
    /\ UNCHANGED <<content, ttl, maxViews, createRes, createErr, pasteId, healthRes,
                   healthErr, viewVars>>

---------------------------------------------------------------------------
(* PasteView: the viewer page *)

\* the route parameters: two identifiers, and "" for a route without one
ViewIds == {"", "a", "b"}

ViewInit ==
    /\ id \in ViewIds \ {""}
    /\ paste = JNull /\ vLoading = TRUE /\ error = ""
    /\ effectDue = TRUE
    /\ vInflight = <<>>

\* the try block of the effect's fetchPaste
ViewOutcome(r) ==
    IF r.kind = "failure" THEN Throw(r.message)
    ELSE LET d == safeJsonResponse(r)
         IN  IF ~ok(r) THEN Throw(HttpErrorMessage(r, d, FetchSlice, "Not found"))
             ELSE IF ~Truthy(d.json)
                  THEN Throw("Non-JSON response (HTTP " \o ToString(r.status) \o ").")
             ELSE Return(d.json)

ViewRequest(i) ==
    [id |-> i, method |-> "GET", url |-> API_BASE \o "/api/pastes/" \o encodeURIComponent(i),
     response |-> Pending]

\* useEffect(() => { fetchPaste() }, [id]) for identifier i, up to its return or
\* its await: no request without an identifier, else one more GET in flight
Effect(i) ==
    IF i = ""
    THEN /\ error' = "No paste ID provided"
         /\ vLoading' = FALSE
         /\ UNCHANGED vInflight
    ELSE /\ vInflight' = Append(vInflight, ViewRequest(i))
         /\ UNCHANGED <<error, vLoading>>

\* the component mounts: the effect runs for the identifier of the route
Mount ==
    /\ effectDue
    /\ effectDue' = FALSE
    /\ Effect(id)
    /\ UNCHANGED <<id, paste, appVars>>

\* the router hands the mounted component another identifier: it renders again
\* and the effect, keyed on id, runs for the new one
Navigate(newId) ==
    /\ ~effectDue
    /\ newId # id
    /\ Len(vInflight) < MaxInflight
    /\ id' = newId
    /\ Effect(newId)
    /\ UNCHANGED <<paste, effectDue, appVars>>

RemoveAt(q, i) == SubSeq(q, 1, i - 1) \o SubSeq(q, i + 1, Len(q))

\* an awaited fetch() of the viewer settles; the requests settle in any order
ViewArrive(i, r) ==
    /\ i \in 1..Len(vInflight)
    /\ vInflight[i].response = Pending
    /\ vInflight' = [vInflight EXCEPT ![i].response = r]
    /\ UNCHANGED <<id, paste, vLoading, error, effectDue, appVars>>

\* the variant that compares the identifier captured at request time with the
\* current one and drops the response of a superseded request
ViewRespondCurrentOnly(i, r) ==
    /\ i \in 1..Len(vInflight)
    /\ vInflight[i].response = r
    /\ vInflight' = RemoveAt(vInflight, i)
    /\ IF vInflight[i].id # id
       THEN UNCHANGED <<paste, error, vLoading>>
       ELSE /\ LET o == ViewOutcome(r)
               IN  IF o.thrown
                   THEN error' = CatchMessage(o) /\ UNCHANGED paste
                   ELSE paste' = o.value /\ UNCHANGED error
            /\ vLoading' = FALSE
    /\ UNCHANGED <<id, effectDue, appVars>>

\* the effect's fetchPaste from the response on
ViewRespond(i, r) ==
    /\ i \in 1..Len(vInflight)
    /\ vInflight[i].response = r
    /\ vInflight' = RemoveAt(vInflight, i)
    /\ LET o == ViewOutcome(r)
       IN  IF o.thrown
           THEN error' = CatchMessage(o) /\ UNCHANGED paste
           ELSE paste' = o.value /\ UNCHANGED error
    /\ vLoading' = FALSE
    /\ UNCHANGED <<id, effectDue, appVars>>

\* the three render branches of PasteView
Shown ==
    IF vLoading THEN "loading"
    ELSE IF error # "" THEN "error"
    ELSE "success"

\* the viewer while the panel is the page on screen
ViewUnmounted ==
    /\ id = ""
    /\ paste = JNull /\ vLoading = TRUE /\ error = ""
    /\ effectDue = FALSE
    /\ vInflight = <<>>

---------------------------------------------------------------------------
(* Specifications *)

\* what the user types in the panel
ContentInputs == {"", " hi "}
IdInputs      == {"", " a b "}

Init == AppInit /\ ViewUnmounted

Next ==
    \/ \E v \in ContentInputs : SetContent(v)
    \/ \E v \in IdInputs : SetPasteId(v)
    \/ \E r \in Responses : Arrive(r)
    \/ CheckHealth
    \/ \E r \in Responses : HealthRespond(r)
    \/ CreatePaste
    \/ \E r \in Responses : CreateRespond(r)
    \/ Clear
    \/ FetchPaste
    \/ \E r \in Responses : FetchRespond(r)

Spec == Init /\ [][Next]_vars

\* every request eventually completes, with a response or a network failure
Completes ==
    \/ \E r \in Responses : Arrive(r)
    \/ \E r \in Responses : HealthRespond(r)
    \/ \E r \in Responses : CreateRespond(r)
    \/ \E r \in Responses : FetchRespond(r)

FairSpec == Spec /\ WF_vars(Completes)

\* the viewer page on screen, and the answers its GET can get
ViewResponses ==
    {NetFailure, Resp(200, T_PasteA), Resp(200, T_PasteB), Resp(200, T_Html),
     Resp(404, T_NotFound)}

InitView == AppInit /\ ViewInit

NextView ==
    \/ Mount
    \/ \E v \in ViewIds : Navigate(v)
    \/ \E i \in 1..MaxInflight, r \in ViewResponses : ViewArrive(i, r)
    \/ \E i \in 1..MaxInflight, r \in ViewResponses : ViewRespond(i, r)

SpecView == InitView /\ [][NextView]_vars

\* the create form with a draft typed in: one of the two optional inputs ranges
\* over every string of the alphabet, the other over a few
ContentAlphabet == {" ", "a"}
NumAlphabet     == {"0", "1", ".", "-", " ", "a"}
OtherInputs     == {"", "2", "x"}

RECURSIVE StringsUpTo(_, _)
StringsUpTo(A, n) ==
    IF n = 0 THEN {""}
    ELSE LET S == StringsUpTo(A, n - 1) IN S \cup {s \o c : s \in S, c \in A}

InitDraft ==
    /\ content \in StringsUpTo(ContentAlphabet, MaxContentLen)
    /\ \/ ttl \in StringsUpTo(NumAlphabet, MaxNumLen) /\ maxViews \in OtherInputs
       \/ ttl \in OtherInputs /\ maxViews \in StringsUpTo(NumAlphabet, MaxNumLen)
    /\ createRes = JNull /\ createErr = ""
    /\ pasteId = "" /\ fetchRes = JNull /\ fetchErr = ""
    /\ healthRes = JNull /\ healthErr = ""
    /\ loading = FALSE
    /\ inflight = {}
    /\ ViewUnmounted

\* the answers the POST gets while the drafts are explored
DraftResponses == {NetFailure, Resp(201, T_Created)}

NextDraft ==
    \/ \E v \in OtherInputs : SetTtl(v)
    \/ \E v \in OtherInputs : SetMaxViews(v)
    \/ CreatePaste
    \/ \E r \in DraftResponses : Arrive(r)
    \/ \E r \in DraftResponses : CreateRespond(r)
    \/ Clear

SpecDraft == InitDraft /\ [][NextDraft]_vars

---------------------------------------------------------------------------
(* Properties of createPaste on a draft *)

AllIn(s, A) == \A i \in 1..Len(s) : Char(s, i) \in A

\* empty, or made of whitespace only
IsBlank(s) == AllIn(s, {" ", "\t", "\n"})

\* s holds t as a substring
Contains(s, t) == \E i \in 1..(Len(s) - Len(t) + 1) : SubSeq(s, i, i + Len(t) - 1) = t

\* a request was sent in this step
Sent == \E q \in inflight' \ inflight : q.response = Pending

\* C1: createPaste on a draft whose content is empty or whitespace only sends no
\* request, leaves loading false and createRes empty, and sets a non-empty
\* createErr, whatever the ttl and max-views inputs hold.
C1_BlankContentRejected ==
    [][(CreatePaste /\ IsBlank(content))
         => (~Sent /\ loading' = FALSE /\ createRes' = JNull /\ createErr' # "")]_vars

\* whitespace-only content with both optional inputs filled in was rejected
C1_Witness ==
    /\ content = " " /\ ttl = "10" /\ maxViews = "2"
    /\ createErr = "Content is required." /\ createRes = JNull
    /\ ~loading /\ inflight = {}

\* the text of an integer >= 1: decimal digits only, not all of them 0
IsPositiveIntegerText(s) ==
    s # "" /\ AllIn(s, Digits) /\ ~AllIn(s, {"0"})

\* a numeral whose value is a whole number >= 1: digits, not all 0, then
\* nothing, or a point followed by zeros only
IsWholeNumeral(s) ==
    \E p \in 1..Len(s) :
        /\ IsPositiveIntegerText(SubSeq(s, 1, p))
        /\ \/ p = Len(s)
           \/ Char(s, p + 1) = "." /\ AllIn(SubSeq(s, p + 2, Len(s)), {"0"})

\* the text Number() reads as an integer >= 1: a whole numeral, with an optional
\* plus sign, between optional whitespace
ReadsAsPositiveInteger(s) ==
    \E i \in 1..Len(s), j \in 1..Len(s) :
        /\ IsBlank(SubSeq(s, 1, i - 1)) /\ IsBlank(SubSeq(s, j + 1, Len(s)))
        /\ \/ IsWholeNumeral(SubSeq(s, i, j))
           \/ Char(s, i) = "+" /\ IsWholeNumeral(SubSeq(s, i + 1, j))

\* C2 as claimed: createPaste rejects, before sending, every non-empty ttl or
\* max-views input that is not the text of an integer >= 1.
C2_OnlyIntegerTextAccepted ==
    [][(/\ CreatePaste
        /\ \/ ttl # "" /\ ~IsPositiveIntegerText(ttl)
           \/ maxViews # "" /\ ~IsPositiveIntegerText(maxViews))
         => (~Sent /\ createErr' # "")]_vars

\* C2 amended: with non-blank content, createPaste sends the request exactly when
\* each optional input is empty or reads, as Number() reads it, as an integer >= 1
\* ("1.0", "1." and " 1 " do; "0", "-1", "1.1", "a" and " " do not); otherwise it
\* sets a validation error and sends nothing.
C2_NumericValueDecides ==
    [][(CreatePaste /\ ~IsBlank(content))
         => /\ Sent <=> /\ (ttl = "" \/ ReadsAsPositiveInteger(ttl))
                        /\ (maxViews = "" \/ ReadsAsPositiveInteger(maxViews))
            /\ ~Sent => (createErr' # "" /\ loading' = FALSE)]_vars

\* "1.0" was accepted and sent as the integer 1
C2_Witness ==
    /\ content = "a" /\ ttl = "1.0" /\ maxViews = ""
    /\ loading
    /\ \E q \in inflight : q.body = "{\"content\":\"a\",\"ttl_seconds\":1}"

\* C3: the body of the POST holds the trimmed content and, for each of ttl_seconds
\* and max_views, the field (as the parsed integer) exactly when its input is
\* non-empty; an empty input gives no field, never null or zero.
C3_BodyFields ==
    [][(CreatePaste /\ Sent)
         => \E q \in inflight' \ inflight :
               /\ q.method = "POST" /\ q.url = "/api/pastes"
               /\ Contains(q.body, "\"ttl_seconds\":") <=> ttl # ""
               /\ Contains(q.body, "\"max_views\":") <=> maxViews # ""
               /\ q.body =
                    "{\"content\":\"" \o trim(content) \o "\""
                    \o (IF ttl = "" THEN ""
                        ELSE ",\"ttl_seconds\":" \o ToString(parsePositiveIntOrNull(ttl).n))
                    \o (IF maxViews = "" THEN ""
                        ELSE ",\"max_views\":" \o ToString(parsePositiveIntOrNull(maxViews).n))
                    \o "}"]_vars

\* a request in flight whose draft has one optional input empty and the other set
C3_Witness ==
    /\ content = " a" /\ ttl = "" /\ maxViews = "10"
    /\ \E q \in inflight : q.body = "{\"content\":\"a\",\"max_views\":10}"

\* the three draft fields are empty
DraftEmpty == content = "" /\ ttl = "" /\ maxViews = ""

\* C10 as claimed: after createPaste is submitted, and after Clear is pressed, the
\* three draft fields are empty.
C10_DraftDiscardedOnSubmit ==
    [][(CreatePaste \/ Clear) => DraftEmpty']_vars

\* C10 amended: the draft is discarded on explicit clear only: after Clear the
\* three draft fields are empty (and the create result and error are reset);
\* createPaste, rejected or sent, and its completion leave the draft as typed.
C10_DraftDiscardedOnClearOnly ==
    [][/\ Clear => (DraftEmpty' /\ createRes' = JNull /\ createErr' = "")
       /\ (CreatePaste \/ \E r \in Responses : CreateRespond(r))
            => UNCHANGED <<content, ttl, maxViews>>]_vars

\* a paste was created and the form then cleared (pasteId keeps the created id)
C10_Witness ==
    /\ DraftEmpty /\ createRes = JNull /\ createErr = ""
    /\ pasteId = "abc123" /\ ~loading

---------------------------------------------------------------------------
(* Properties of the panel's requests *)

IsSuccessStatus(r) == r.kind = "response" /\ r.status \in 200..299

\* the body texts that are JSON, and the fields they hold
IsJsonText(text)    == text \in {T_Created, T_NotFound, T_Null, T_EmptyId, T_EmptyErr}
HasIdField(text)    == text \in {T_Created, T_EmptyId}
HasErrorField(text) == text \in {T_NotFound, T_EmptyErr}
IdField(text)       == IF text = T_Created THEN "abc123" ELSE ""
ErrorField(text)    == IF text = T_NotFound THEN "Not found" ELSE ""

\* C4 as claimed: a create request ends in success exactly when the response has
\* a success status and a JSON body containing an id field: then createRes holds
\* the parsed payload and pasteId that id; otherwise createRes stays empty,
\* pasteId is unchanged and createErr holds a message.
C4_SuccessIffIdField ==
    [][\A r \in Responses : CreateRespond(r) =>
          IF IsSuccessStatus(r) /\ HasIdField(r.text)
          THEN /\ createRes' = JSONparse(r.text).value /\ createRes' # JNull
               /\ pasteId' = IdField(r.text)
               /\ createErr' = ""
          ELSE /\ createRes' = JNull /\ pasteId' = pasteId /\ createErr' # ""]_vars

\* C4 amended: as C4, with success exactly when the status is a success status and
\* the JSON body holds a non-empty (truthy) id; {"id":""} is a missing-id error.
C4_SuccessIffTruthyId ==
    [][\A r \in Responses : CreateRespond(r) =>
          IF IsSuccessStatus(r) /\ HasIdField(r.text) /\ IdField(r.text) # ""
          THEN /\ createRes' = JSONparse(r.text).value /\ createRes' # JNull
               /\ pasteId' = IdField(r.text)
               /\ createErr' = ""
          ELSE /\ createRes' = JNull /\ pasteId' = pasteId /\ createErr' # ""]_vars

\* a create succeeded: the payload is stored and the fetch field holds its id
C4_Witness ==
    /\ createRes = JObj("id" :> JStr("abc123")) /\ createErr = ""
    /\ pasteId = "abc123" /\ ~loading /\ inflight = {}

\* `HTTP ${status} - ${the first 140 characters of the text, or "Not found"}`
FetchSynthesized(r) ==
    "HTTP " \o ToString(r.status) \o " - "
    \o (IF r.text = "" THEN "Not found"
        ELSE IF Len(r.text) > 140 THEN SubSeq(r.text, 1, 140) ELSE r.text)

\* C5 as claimed: on a non-2xx response fetchRes stays empty and fetchErr is the
\* body's error field whenever the JSON body carries one; only without an error
\* field is the message synthesized from the status and the truncated text.
C5_ErrorFieldSurfaced ==
    [][\A r \in Responses :
          (FetchRespond(r) /\ r.kind = "response" /\ ~IsSuccessStatus(r)) =>
             /\ fetchRes' = JNull
             /\ fetchErr' = IF HasErrorField(r.text) THEN ErrorField(r.text)
                            ELSE FetchSynthesized(r)]_vars

\* C5 amended: as C5, with fetchErr equal to the error field whenever the JSON
\* body carries a non-empty (truthy) one; with no error field, or an empty one,
\* the message is synthesized.
C5_TruthyErrorFieldSurfaced ==
    [][\A r \in Responses :
          (FetchRespond(r) /\ r.kind = "response" /\ ~IsSuccessStatus(r)) =>
             /\ fetchRes' = JNull
             /\ fetchErr' = IF HasErrorField(r.text) /\ ErrorField(r.text) # ""
                            THEN ErrorField(r.text)
                            ELSE FetchSynthesized(r)]_vars

\* a fetch answered 404 {"error":"Not found"}
C5_Witness ==
    fetchErr = "Not found" /\ fetchRes = JNull /\ ~loading /\ inflight = {}

ShapeError(r) == "Non-JSON response (HTTP " \o ToString(r.status) \o ")."

\* C6 as claimed: a 2xx fetch response with a non-JSON body leaves fetchRes empty,
\* sets a shape error and clears loading; every 2xx response whose body parses as
\* JSON populates fetchRes and leaves fetchErr empty.
C6_JsonBodyPopulates ==
    [][\A r \in Responses : (FetchRespond(r) /\ IsSuccessStatus(r)) =>
          /\ loading' = FALSE
          /\ IF IsJsonText(r.text)
             THEN fetchRes' = JSONparse(r.text).value /\ fetchRes' # JNull /\ fetchErr' = ""
             ELSE fetchRes' = JNull /\ fetchErr' = ShapeError(r)]_vars

\* C6 amended: as C6, with fetchRes populated exactly for the 2xx responses whose
\* body parses to a truthy JSON value; a body that is not JSON, or is JSON null
\* (or another falsy value), gives the shape error.
C6_TruthyJsonPopulates ==
    [][\A r \in Responses : (FetchRespond(r) /\ IsSuccessStatus(r)) =>
          /\ loading' = FALSE
          /\ IF IsJsonText(r.text) /\ r.text # T_Null
             THEN fetchRes' = JSONparse(r.text).value /\ fetchRes' # JNull /\ fetchErr' = ""
             ELSE fetchRes' = JNull /\ fetchErr' = ShapeError(r)]_vars

\* a fetch answered 200 with a body that gave the shape error
C6_Witness ==
    /\ fetchErr = "Non-JSON response (HTTP 200)." /\ fetchRes = JNull
    /\ ~loading /\ inflight = {}

HealthStep == CheckHealth \/ \E r \in Responses : HealthRespond(r)
CreateStep == CreatePaste \/ \E r \in Responses : CreateRespond(r)
FetchStep  == FetchPaste \/ \E r \in Responses : FetchRespond(r)

\* C7: the outcomes are independent slots: no step of checkHealth changes the
\* fetch or create outcome, no step of fetchPaste the health or create outcome,
\* no step of createPaste the fetch or health outcome.
C7_IndependentSlots ==
    [][/\ HealthStep => UNCHANGED <<fetchRes, fetchErr, createRes, createErr>>
       /\ FetchStep  => UNCHANGED <<healthRes, healthErr, createRes, createErr>>
       /\ CreateStep => UNCHANGED <<fetchRes, fetchErr, healthRes, healthErr>>]_vars

\* a failed health check beside a fetch result and a create result
C7_Witness ==
    /\ healthErr # "" /\ fetchRes # JNull /\ createRes # JNull
    /\ ~loading

\* a slot holds exactly one of a result and a non-empty error
Terminal(res, err) == (res # JNull) # (err # "")

\* the continuation of each action: loading cleared, the slot terminal
CompletionRule ==
    /\ (\E r \in Responses : HealthRespond(r))
          => (loading' = FALSE /\ Terminal(healthRes', healthErr'))
    /\ (\E r \in Responses : CreateRespond(r))
          => (loading' = FALSE /\ Terminal(createRes', createErr'))
    /\ (\E r \in Responses : FetchRespond(r))
          => (loading' = FALSE /\ Terminal(fetchRes', fetchErr'))

\* C8 as claimed: triggering an action clears its slot and sets loading; the
\* completion clears loading and leaves exactly one of a result and a non-empty
\* error in the slot.
C8_TriggerSetsLoading ==
    [][/\ CheckHealth => (healthRes' = JNull /\ healthErr' = "" /\ loading')
       /\ CreatePaste => (createRes' = JNull /\ createErr' = "" /\ loading')
       /\ FetchPaste  => (fetchRes' = JNull /\ fetchErr' = "" /\ loading')
       /\ CompletionRule]_vars

\* C8 amended: triggering an action clears its slot's result and either sends the
\* request, clearing the error and setting loading, or, when validation rejects
\* the input (createPaste on a bad draft, fetchPaste on a blank id), sends nothing,
\* leaves loading false and puts the slot in error at once; the completion clears
\* loading and leaves exactly one of a result and a non-empty error; and if every
\* request eventually completes, loading is eventually false again.
C8_StateMachine ==
    /\ [][/\ CheckHealth => (healthRes' = JNull /\ healthErr' = "" /\ loading' /\ Sent)
          /\ CreatePaste =>
               /\ createRes' = JNull
               /\ IF /\ ~IsBlank(content)
                     /\ (ttl = "" \/ ReadsAsPositiveInteger(ttl))
                     /\ (maxViews = "" \/ ReadsAsPositiveInteger(maxViews))
                  THEN createErr' = "" /\ loading' /\ Sent
                  ELSE createErr' # "" /\ ~loading' /\ ~Sent
          /\ FetchPaste =>
               /\ fetchRes' = JNull
               /\ IF ~IsBlank(pasteId)
                  THEN fetchErr' = "" /\ loading' /\ Sent
                  ELSE fetchErr' # "" /\ ~loading' /\ ~Sent
          /\ CompletionRule]_vars
    /\ (loading ~> ~loading)

\* a fetch was sent and ended with a network failure
C8_Witness ==
    fetchErr = "Failed to fetch" /\ fetchRes = JNull /\ ~loading /\ inflight = {}

---------------------------------------------------------------------------
(* Properties of the viewer page *)

\* the GET of the viewer succeeded: a success status and a paste record as body
ViewSucceeds(r) == IsSuccessStatus(r) /\ r.text \in {T_PasteA, T_PasteB}

\* C9, for the routes that carry an identifier: the viewer runs the shared state
\* machine once per identifier: a stored error and a stored paste are never both
\* present, the success page has a paste to show, the page goes back to loading
\* when the identifier changes from one paste's to another's, and when the
\* request for the current identifier completes the page shows success if it
\* succeeded and error if it failed.
C9_ViewStateMachine ==
    [][/\ id' # "" => (error' = "" \/ paste' = JNull)
       /\ Shown' = "success" => paste' # JNull
       /\ (id # "" /\ \E v \in ViewIds \ {""} : Navigate(v)) => Shown' = "loading"
       /\ \A i \in 1..Len(vInflight), r \in ViewResponses :
             (ViewRespond(i, r) /\ vInflight[i].id = id)
                => Shown' = IF ViewSucceeds(r) THEN "success" ELSE "error"]_vars

\* a request of the viewer that was issued for an identifier other than the
\* current one and has not completed yet
Superseded(i) == i \in 1..Len(vInflight) /\ vInflight[i].id # id

\* what a completed response leaves in the view state: the parsed paste, or the
\* message of the failure
StoresOutcome(r) ==
    IF ViewSucceeds(r)
    THEN paste' = JSONparse(r.text).value /\ error' = error
    ELSE /\ paste' = paste
         /\ error' = CASE r.kind = "failure"   -> r.message
                        [] ~IsSuccessStatus(r) -> "Not found"
                        [] OTHER               -> "Non-JSON response (HTTP 200)."

\* C11: in the viewer a request is never cancelled: a change of identifier
\* leaves every request in flight where it was, a request goes away only by
\* completing, and every completing response, that of a superseded request
\* included, is committed: it stores its paste or its error over whatever an
\* earlier response stored and ends loading, whichever identifier is current.
\* So of two outstanding requests the one that completes last has the last
\* write.
C11_LastResponseWins ==
    [][/\ (\E v \in ViewIds : Navigate(v)) =>
             /\ Len(vInflight') >= Len(vInflight)
             /\ SubSeq(vInflight', 1, Len(vInflight)) = vInflight
       /\ Len(vInflight') < Len(vInflight) =>
             \E i \in 1..Len(vInflight), r \in ViewResponses : ViewRespond(i, r)
       /\ \A i \in 1..Len(vInflight), r \in ViewResponses :
             ViewRespond(i, r) => StoresOutcome(r) /\ ~vLoading']_vars

\* the page is on "b" and the request for "b", issued second, has already
\* stored its paste; the request for "a" it superseded is the one left, and its
\* response, the last of the two, is there to be committed
C11_Witness ==
    /\ id = "b" /\ ~vLoading /\ error = ""
    /\ paste = JSONparse(T_PasteB).value
    /\ Len(vInflight) = 1 /\ Superseded(1)
    /\ vInflight[1].response = Resp(200, T_PasteA)

====
